---- MODULE Spec2Model ----
(***************************************************************************)
(* Fluent builder state of DBModel and its terminal operations             *)
(* First / Last / Take (GetOne), Find and Update.                          *)
(*                                                                         *)
(* The builder is the record db; a terminal operation reads db and its     *)
(* arguments, assembles a query, calls the driver and (on most paths)      *)
(* resets db.  call records the operation just invoked together with the   *)
(* builder state it found, result records what the operation did.          *)
(***************************************************************************)
EXTENDS Integers, Sequences, FiniteSets

VARIABLES db, call, result, alive

vars == <<db, call, result, alive>>

\* Largest number of configured items the builder holds at one time.
MaxItems == 2

(***************************************************************************)
(* Values (Go `any`).  k is the reflect.Kind of the dynamic value, "nil"   *)
(* for the nil interface.  An int 0 is a zero value but not a nil `any`.   *)
(***************************************************************************)
NIL == [k |-> "nil", v |-> 0]

IntVal(n) == [k |-> "int", v |-> n]

SliceVal(n) == [k |-> "slice", v |-> n]

\* primaryKey (type any) when the table declares no primary column
NilKey == "<nil>"

(***************************************************************************)
(* fluentsql.Condition                                                     *)
(***************************************************************************)
Cond(f, o, v, ao) == [Field |-> f, Opt |-> o, Value |-> v, AndOr |-> ao, Group |-> <<>>]

GroupCond(g) == [Field |-> NilKey, Opt |-> "Eq", Value |-> NIL, AndOr |-> "And", Group |-> g]

ZeroCondition == Cond(NilKey, "Eq", NIL, "And")

(***************************************************************************)
(* Record types: the columns ModelData derives from the struct tags.       *)
(* primary: column flagged primary key; update: CanColumnBeAddOrUpdate.    *)
(***************************************************************************)
Col(n, p, u) == [Name |-> n, primary |-> p, update |-> u]

ModelTypes ==
    [ User |-> <<Col("id", TRUE, TRUE), Col("name", FALSE, TRUE), Col("age", FALSE, TRUE)>>,
      Note |-> <<Col("title", FALSE, TRUE), Col("key", TRUE, FALSE)>>,
      Log  |-> <<Col("msg", FALSE, TRUE), Col("level", FALSE, TRUE)>>,
      Flag |-> <<Col("on", FALSE, TRUE)>> ]

TypeNames == DOMAIN ModelTypes

(***************************************************************************)
(* Arguments of the terminal operations (Go `any`): kind is the            *)
(* reflect.Kind seen by the shape checks, typ/vals the record behind a     *)
(* struct or pointer, ents the entries of a map.                           *)
(***************************************************************************)
Arg(k, t, vs) == [kind |-> k, typ |-> t, vals |-> vs, ents |-> {}]

NilArg == Arg("nil", "", <<>>)

MapArg(es) == [kind |-> "map", typ |-> "", vals |-> <<>>, ents |-> es]

IsStruct(m) == m.kind \in {"struct", "ptr_struct"}

Records ==
    {Arg("ptr_struct", "User", vs) : vs \in {<<0, 0, 0>>, <<1, 0, 0>>, <<0, 1, 0>>, <<1, 1, 0>>}}
    \cup {Arg("struct", "User", <<1, 0, 1>>)}
    \cup {Arg("ptr_struct", "Note", vs) : vs \in {<<0, 0>>, <<1, 1>>}}
    \cup {Arg("ptr_struct", "Log", vs) : vs \in {<<0, 0>>, <<0, 1>>}}
    \cup {Arg("ptr_struct", "Flag", vs) : vs \in {<<0>>, <<1>>}}

NonRecords == {NilArg, Arg("scalar", "", <<>>), Arg("slice", "User", <<>>)}

SliceTargets == {Arg("ptr_slice", t, <<>>) : t \in TypeNames}

(***************************************************************************)
(* ModelData: the Table of a record (name, columns with HasValue, primary  *)
(* columns, current field values, HasData).                                *)
(***************************************************************************)
RECURSIVE SeqFilter(_, _, _)
SeqFilter(s, i, keep) ==
    IF i > Len(s) THEN <<>>
    ELSE (IF s[i] \in keep THEN <<s[i]>> ELSE <<>>) \o SeqFilter(s, i + 1, keep)

ModelData(m) ==
    LET decl == ModelTypes[m.typ]
        cols == [i \in 1..Len(decl) |->
                    [Name |-> decl[i].Name, primary |-> decl[i].primary,
                     update |-> decl[i].update, HasValue |-> m.vals[i] # 0]]
    IN  [Name      |-> m.typ,
         Columns   |-> cols,
         Primaries |-> SeqFilter(cols, 1, {c \in {cols[i] : i \in 1..Len(cols)} : c.primary}),
         Values    |-> [n \in {cols[i].Name : i \in 1..Len(cols)} |->
                           IntVal(m.vals[CHOOSE i \in 1..Len(cols) : cols[i].Name = n])],
         HasData   |-> \E i \in 1..Len(cols) : cols[i].HasValue]

\* Find builds its table from the element type alone (no record instance).
ZeroVals(t) == [i \in 1..Len(ModelTypes[t]) |-> 0]

TableOfType(t) == ModelData(Arg("struct", t, ZeroVals(t)))

CanColumnBeAddOrUpdate(column) == column.update

\* primaryKey: name of the first primary column, nil if none is declared
PrimaryKeyOf(table) ==
    IF Len(table.Primaries) > 0 THEN table.Primaries[1].Name ELSE NilKey

\* SetValue(model, key, val): assign val to the field named key, if any
SetValue(m, key, val) ==
    LET decl == ModelTypes[m.typ]
    IN  [m EXCEPT !.vals = [i \in 1..Len(decl) |->
                               IF decl[i].Name = key THEN val ELSE m.vals[i]]]

(***************************************************************************)
(* The abstract query / update statement handed to the driver.             *)
(***************************************************************************)
NoLimit == [Limit |-> 0, Offset |-> 0]

NoFetch == [Fetch |-> 0, Offset |-> 0]

NoQuery ==
    [kind |-> "none", sel |-> <<>>, from |-> "", joins |-> <<>>, where |-> <<>>,
     groupBy |-> <<>>, having |-> <<>>, limit |-> NoLimit, fetch |-> NoFetch,
     orderBy |-> <<>>, set |-> <<>>]

RawQuery(sqlStr) == [NoQuery EXCEPT !.kind = "raw", !.from = sqlStr]

\* fluentsql builder calls: each appends one condition to the WHERE clause
QWhere(q, f, o, v) == [q EXCEPT !.where = Append(@, Cond(f, o, v, "And"))]

QWhereOr(q, f, o, v) == [q EXCEPT !.where = Append(@, Cond(f, o, v, "Or"))]

QWhereGroup(q, g) == [q EXCEPT !.where = Append(@, GroupCond(g))]

QWhereCondition(q, c) == [q EXCEPT !.where = Append(@, c)]

\* the loop over db.whereStatement.Conditions shared by GetOne, Find and
\* updateByStruct
RECURSIVE WhereFromConditions(_, _, _)
WhereFromConditions(q, conds, i) ==
    IF i > Len(conds) THEN q
    ELSE LET c == conds[i]
             q1 == IF Len(c.Group) > 0 THEN QWhereGroup(q, c.Group)
                   ELSE IF c.AndOr = "And" THEN QWhere(q, c.Field, c.Opt, c.Value)
                   ELSE IF c.AndOr = "Or" THEN QWhereOr(q, c.Field, c.Opt, c.Value)
                   ELSE q
         IN  WhereFromConditions(q1, conds, i + 1)

\* whereFromModel: the documented assembly order adds no further clause
WhereFromModel(d, q) == q

(***************************************************************************)
(* Fluent builder state (the fields of DBModel).                           *)
(***************************************************************************)
EmptyDB ==
    [selectStatement       |-> <<>>,
     whereStatement        |-> <<>>,
     joinStatement         |-> <<>>,
     groupByStatement      |-> <<>>,
     havingStatement       |-> <<>>,
     limitStatement        |-> NoLimit,
     fetchStatement        |-> NoFetch,
     orderByStatement      |-> <<>>,
     wherePrimaryCondition |-> ZeroCondition,
     raw                   |-> "",
     model                 |-> NilArg,
     omitsSelectStatement  |-> <<>>]

\* reset(): every field back to its zero value
Reset(d) == EmptyDB

\* number of items configured on the builder
BuilderSize(d) ==
    Len(d.selectStatement) + Len(d.whereStatement) + Len(d.joinStatement)
    + Len(d.groupByStatement) + Len(d.havingStatement) + Len(d.orderByStatement)
    + Len(d.omitsSelectStatement)
    + (IF d.limitStatement # NoLimit THEN 1 ELSE 0)
    + (IF d.fetchStatement # NoFetch THEN 1 ELSE 0)
    + (IF d.raw # "" THEN 1 ELSE 0)
    + (IF d.model # NilArg THEN 1 ELSE 0)

NoCall == [op |-> "none", model |-> NilArg, args |-> <<>>, pre |-> EmptyDB]

NoResult == [err |-> "nil", exit |-> "none", q |-> NoQuery, io |-> <<>>]

Init ==
    /\ db = EmptyDB
    /\ call = NoCall
    /\ result = NoResult
    /\ alive = TRUE

(***************************************************************************)
(* Configuration calls: each appends to, or sets, one component and        *)
(* leaves the rest of the builder alone.  The single-valued components    *)
(* are configured at most once per chain.                                  *)
(***************************************************************************)
Configure(d) ==
    /\ alive
    /\ result = NoResult
    /\ BuilderSize(db) < MaxItems
    /\ db' = d
    /\ UNCHANGED <<call, result, alive>>

Select == 
    /\ db.selectStatement = <<>>
    /\ Configure([db EXCEPT !.selectStatement = Append(@, "name")])

Where == 
    Configure([db EXCEPT !.whereStatement = Append(@, Cond("age", "Eq", IntVal(1), "And"))])

WhereOr == 
    Configure([db EXCEPT !.whereStatement = Append(@, Cond("name", "Eq", IntVal(1), "Or"))])

WhereGroup == 
    Configure([db EXCEPT !.whereStatement =
        Append(@, GroupCond(<<Cond("age", "Eq", IntVal(1), "And"),
                              Cond("age", "Eq", IntVal(2), "Or")>>))])

Join == 
    /\ db.joinStatement = <<>>
    /\ Configure([db EXCEPT !.joinStatement =
        Append(@, [Join |-> "Inner", Table |-> "posts", Condition |-> "user_id"])])

GroupBy == 
    /\ db.groupByStatement = <<>>
    /\ Configure([db EXCEPT !.groupByStatement = Append(@, "age")])

Having == 
    /\ db.havingStatement = <<>>
    /\ Configure([db EXCEPT !.havingStatement = Append(@, Cond("age", "Eq", IntVal(1), "And"))])

Limit == 
    /\ db.limitStatement = NoLimit
    /\ Configure([db EXCEPT !.limitStatement = [Limit |-> 2, Offset |-> 1]])

Fetch == 
    /\ db.fetchStatement = NoFetch
    /\ Configure([db EXCEPT !.fetchStatement = [Fetch |-> 2, Offset |-> 1]])

OrderBy == 
    /\ db.orderByStatement = <<>>
    /\ Configure([db EXCEPT !.orderByStatement = Append(@, [Field |-> "name", Direction |-> "Desc"])])

Raw == 
    /\ db.raw = ""
    /\ Configure([db EXCEPT !.raw = "SELECT 1"])

Model == 
    /\ db.model = NilArg
    /\ \E m \in {Arg("ptr_struct", "User", <<1, 0, 0>>), Arg("ptr_struct", "User", <<0, 0, 0>>)} :
          Configure([db EXCEPT !.model = m])

Omit == 
    /\ db.omitsSelectStatement = <<>>
    /\ Configure([db EXCEPT !.omitsSelectStatement = Append(@, "name")])

(***************************************************************************)
(* Outcome of a terminal operation: the builder it leaves behind and what  *)
(* the caller observes.  exit is "return" when the call returns, "panic"   *)
(* for a run-time panic and "fatal" when log.Fatal ends the process.  io   *)
(* lists the driver calls issued, q the query or statement assembled.      *)
(***************************************************************************)
Out(d, err, exit, q, io) ==
    [db |-> d, res |-> [err |-> err, exit |-> exit, q |-> q, io |-> io]]

\* the driver either succeeds or reports an error, passed through unchanged
DriverErrs == {"nil", "exec error"}

\* rand.Int(rand.Reader, max): uniform in [0, max); panics when max <= 0
RandInt(max) == 0..(max - 1)

\* the argument of the second rand.Int call, which picks the direction
DirRange == 10

SelectColumns(d) ==
    IF Len(d.selectStatement) > 0 THEN d.selectStatement ELSE <<"*">>

\* WHERE <primaryKey> <Opt> <Value> from the primary-key condition slot
WherePrimary(d, q, primaryKey) ==
    IF d.wherePrimaryCondition.Value # NIL /\ primaryKey # NilKey
    THEN QWhere(q, primaryKey, d.wherePrimaryCondition.Opt, d.wherePrimaryCondition.Value)
    ELSE q

\* in-struct filters: one equality per populated column of the target
RECURSIVE WhereFromColumns(_, _, _)
WhereFromColumns(q, table, i) ==
    IF i > Len(table.Columns) THEN q
    ELSE LET column == table.Columns[i]
         IN  WhereFromColumns(
                 IF column.HasValue
                 THEN QWhere(q, column.Name, "Eq", table.Values[column.Name])
                 ELSE q,
                 table, i + 1)

WhereFromData(q, table) ==
    IF table.HasData THEN WhereFromColumns(q, table, 1) ELSE q

\* variant: always the first declared column, the primary key ignored
OrderByFieldFirstColumn(table, primaryKey) == table.Columns[1].Name

OrderByField(table, primaryKey) ==
    IF primaryKey # NilKey THEN primaryKey ELSE table.Columns[1].Name

\* direction for First / Last; the zero OrderByDir (Asc) when no branch applies
OrderByDirOf(getType, orderByField) ==
    IF getType = "GetLast" /\ orderByField # "" THEN "Desc"
    ELSE IF getType = "GetFirst" /\ orderByField # "" THEN "Asc"
    ELSE "Asc"

\* the bound handed to the first rand.Int call of Take
TakeBound(table) == Len(table.Columns) - 1

TakeDir(n) == IF n % 2 = 1 THEN "Asc" ELSE "Desc"

QOrderBy(q, f, dir) == [q EXCEPT !.orderBy = Append(@, [Field |-> f, Direction |-> dir])]

\* variant: the explicit conditions are added before the primary-key one
GetOneQueryExplicitFirst(d, table, primaryKey) ==
    LET q0 == [NoQuery EXCEPT !.kind = "select", !.sel = SelectColumns(d),
                              !.from = table.Name, !.limit = [Limit |-> 1, Offset |-> 0]]
        q1 == WhereFromConditions(q0, d.whereStatement, 1)
        q2 == WherePrimary(d, q1, primaryKey)
        q3 == WhereFromData(q2, table)
    IN  WhereFromModel(d, q3)

GetOneQuery(d, table, primaryKey) ==
    LET q0 == [NoQuery EXCEPT !.kind = "select", !.sel = SelectColumns(d),
                              !.from = table.Name, !.limit = [Limit |-> 1, Offset |-> 0]]
        q1 == WherePrimary(d, q0, primaryKey)
        q2 == WhereFromConditions(q1, d.whereStatement, 1)
        q3 == WhereFromData(q2, table)
    IN  WhereFromModel(d, q3)

GetOne(d, model, getType) ==
    IF d.raw # "" THEN
        {Out(Reset(d), e, "return", RawQuery(d.raw), <<"Get">>) : e \in DriverErrs}
    ELSE IF model.kind = "nil" THEN
        {Out(d, "nil pointer dereference", "panic", NoQuery, <<>>)}
    ELSE IF ~IsStruct(model) THEN
        {Out(d, "invalid model", "return", NoQuery, <<>>)}
    ELSE
        LET table == ModelData(model)
            primaryKey == PrimaryKeyOf(table)
            q == GetOneQuery(d, table, primaryKey)
        IN  IF primaryKey = NilKey /\ Len(table.Columns) = 0 THEN
                {Out(d, "index out of range", "panic", q, <<>>)}
            ELSE IF getType = "TakeOne" THEN
                IF TakeBound(table) <= 0 THEN
                    {Out(d, "argument to Int is <= 0", "panic", q, <<>>)}
                ELSE
                    {Out(Reset(d), e, "return",
                         QOrderBy(q, table.Columns[n + 1].Name, TakeDir(r)), <<"Get">>) :
                        n \in RandInt(TakeBound(table)), r \in RandInt(DirRange),
                        e \in DriverErrs}
            ELSE
                LET orderByField == OrderByField(table, primaryKey)
                IN  {Out(Reset(d), e, "return",
                         QOrderBy(q, orderByField, OrderByDirOf(getType, orderByField)),
                         <<"Get">>) : e \in DriverErrs}

\* First stores its positional argument in the primary-key condition slot
FirstPrimary(d, args) ==
    IF Len(args) > 0
    THEN [d EXCEPT !.wherePrimaryCondition = Cond(NilKey, "Eq", args[1], "And")]
    ELSE d

\* a terminal operation is called once the previous result has been taken
Ready == alive /\ result = NoResult

Terminal(op, model, args, o) ==
    /\ call' = [op |-> op, model |-> model, args |-> args, pre |-> db]
    /\ db' = o.db
    /\ result' = o.res
    /\ alive' = (o.res.exit = "return")

First ==
    /\ Ready
    /\ \E model \in Records \cup NonRecords, args \in {<<>>, <<IntVal(2)>>, <<NIL>>} :
        \E o \in GetOne(FirstPrimary(db, args), model, "GetFirst") :
            Terminal("First", model, args, o)

Last ==
    /\ Ready
    /\ \E model \in Records \cup NonRecords :
        \E o \in GetOne(db, model, "GetLast") : Terminal("Last", model, <<>>, o)

Take ==
    /\ Ready
    /\ \E model \in Records \cup NonRecords :
        \E o \in GetOne(db, model, "TakeOne") : Terminal("Take", model, <<>>, o)

(***************************************************************************)
(* Find                                                                    *)
(***************************************************************************)
RECURSIVE JoinAll(_, _, _)
JoinAll(q, items, i) ==
    IF i > Len(items) THEN q
    ELSE JoinAll([q EXCEPT !.joins = Append(@, items[i])], items, i + 1)

\* WhereCondition(db.wherePrimaryCondition): the stored condition as it is
FindWherePrimary(d, q, primaryKey) ==
    IF d.wherePrimaryCondition.Value # NIL /\ primaryKey # NilKey
    THEN QWhereCondition(q, d.wherePrimaryCondition)
    ELSE q

RECURSIVE HavingAll(_, _, _)
HavingAll(q, conds, i) ==
    IF i > Len(conds) THEN q
    ELSE HavingAll([q EXCEPT !.having =
                       Append(@, Cond(conds[i].Field, conds[i].Opt, conds[i].Value, "And"))],
                   conds, i + 1)

RECURSIVE OrderByAll(_, _, _)
OrderByAll(q, items, i) ==
    IF i > Len(items) THEN q
    ELSE OrderByAll(QOrderBy(q, items[i].Field, items[i].Direction), items, i + 1)

\* variant: the explicit conditions are added before the primary-key one
FindQueryExplicitFirst(d, table, primaryKey) ==
    LET q0 == [NoQuery EXCEPT !.kind = "select", !.sel = SelectColumns(d), !.from = table.Name]
        q1 == JoinAll(q0, d.joinStatement, 1)
        q2 == WhereFromConditions(q1, d.whereStatement, 1)
        q3 == FindWherePrimary(d, q2, primaryKey)
        q4 == WhereFromModel(d, q3)
        q5 == IF Len(d.groupByStatement) > 0
              THEN [q4 EXCEPT !.groupBy = @ \o d.groupByStatement] ELSE q4
        q6 == HavingAll(q5, d.havingStatement, 1)
        q7 == IF d.limitStatement.Limit > 0
              THEN [q6 EXCEPT !.limit = d.limitStatement] ELSE q6
        q8 == IF d.fetchStatement.Fetch > 0
              THEN [q7 EXCEPT !.fetch = d.fetchStatement] ELSE q7
    IN  OrderByAll(q8, d.orderByStatement, 1)

FindQuery(d, table, primaryKey) ==
    LET q0 == [NoQuery EXCEPT !.kind = "select", !.sel = SelectColumns(d), !.from = table.Name]
        q1 == JoinAll(q0, d.joinStatement, 1)
        q2 == FindWherePrimary(d, q1, primaryKey)
        q3 == WhereFromConditions(q2, d.whereStatement, 1)
        q4 == WhereFromModel(d, q3)
        q5 == IF Len(d.groupByStatement) > 0
              THEN [q4 EXCEPT !.groupBy = @ \o d.groupByStatement] ELSE q4
        q6 == HavingAll(q5, d.havingStatement, 1)
        q7 == IF d.limitStatement.Limit > 0
              THEN [q6 EXCEPT !.limit = d.limitStatement] ELSE q6
        q8 == IF d.fetchStatement.Fetch > 0
              THEN [q7 EXCEPT !.fetch = d.fetchStatement] ELSE q7
    IN  OrderByAll(q8, d.orderByStatement, 1)

\* the id-list argument is looked at only when the type declares a primary key
ChecksParams(params, primaryKey) == Len(params) > 0 /\ primaryKey # NilKey

\* run the row query, then the count query; reset only when both succeed
FindExecute(d, q) ==
    {Out(d, "exec error", "return", q, <<"Select">>),
     Out(d, "exec error", "return", q, <<"Select", "Count">>),
     Out(Reset(d), "nil", "return", q, <<"Select", "Count">>)}

FindOutcomes(d, model, params) ==
    IF d.raw # "" THEN
        {Out(Reset(d), e, "return", RawQuery(d.raw), <<"Select">>) : e \in DriverErrs}
    ELSE IF model.kind = "nil" THEN
        {Out(d, "nil pointer dereference", "panic", NoQuery, <<>>)}
    ELSE IF model.kind # "ptr_slice" THEN
        {Out(d, "invalid model", "return", NoQuery, <<>>)}
    ELSE
        LET table == TableOfType(model.typ)
            primaryKey == PrimaryKeyOf(table)
        IN  IF ChecksParams(params, primaryKey) THEN
                LET sliceIds == params[1]
                IN  IF sliceIds.k = "nil" THEN
                        {Out(d, "nil pointer dereference", "panic", NoQuery, <<>>)}
                    ELSE IF sliceIds.k # "slice" THEN
                        {Out(d, "invalid params", "return", NoQuery, <<>>)}
                    ELSE
                        LET d1 == [d EXCEPT !.wherePrimaryCondition =
                                       Cond(primaryKey, "In", sliceIds, "And")]
                        IN  FindExecute(d1, FindQuery(d1, table, primaryKey))
            ELSE FindExecute(d, FindQuery(d, table, primaryKey))

Find ==
    /\ Ready
    /\ \E model \in SliceTargets \cup NonRecords \cup {Arg("ptr_struct", "User", <<0, 0, 0>>)},
          params \in {<<>>, <<SliceVal(7)>>, <<IntVal(42)>>, <<NIL>>} :
        \E o \in FindOutcomes(db, model, params) : Terminal("Find", model, params, o)

(***************************************************************************)
(* Update                                                                  *)
(***************************************************************************)
Omitted(d, column) ==
    /\ Len(d.omitsSelectStatement) > 0
    /\ \E i \in 1..Len(d.omitsSelectStatement) : d.omitsSelectStatement[i] = column.Name

\* the columns the first loop of updateByStruct collects (the statement is
\* not built from them)
RECURSIVE UpdateColumns(_, _, _)
UpdateColumns(d, table, i) ==
    IF i > Len(table.Columns) THEN <<>>
    ELSE LET column == table.Columns[i]
         IN  (IF CanColumnBeAddOrUpdate(column) /\ ~Omitted(d, column)
              THEN <<column.Name>> ELSE <<>>) \o UpdateColumns(d, table, i + 1)

\* the primary-key condition captured while collecting the columns
CapturePrimary(d, table, primaryKey) ==
    IF \E i \in 1..Len(table.Columns) :
          /\ table.Columns[i].Name = primaryKey
          /\ CanColumnBeAddOrUpdate(table.Columns[i])
          /\ ~Omitted(d, table.Columns[i])
    THEN [d EXCEPT !.wherePrimaryCondition =
             Cond(primaryKey, "Eq", table.Values[primaryKey], "And")]
    ELSE d

\* the SET pairs of the statement: the second loop of updateByStruct
RECURSIVE SetFromColumns(_, _)
SetFromColumns(table, i) ==
    IF i > Len(table.Columns) THEN <<>>
    ELSE LET column == table.Columns[i]
         IN  (IF column.HasValue
              THEN <<[Column |-> column.Name, Value |-> table.Values[column.Name]]>>
              ELSE <<>>) \o SetFromColumns(table, i + 1)

\* hasCondition: some WHERE call was made on the update builder
HasCondition(q) == Len(q.where) > 0

\* updateByStruct / updateByMap / execRaw give back the builder, the error,
\* the statement and the driver calls
Upd(d, err, q, io) == [db |-> d, err |-> err, q |-> q, io |-> io]

UpdateByStruct(d, model) ==
    LET table == ModelData(model)
        primaryKey == PrimaryKeyOf(table)
        d1 == CapturePrimary(d, table, primaryKey)
        q0 == [NoQuery EXCEPT !.kind = "update", !.from = table.Name]
        q1 == WherePrimary(d1, q0, primaryKey)
        q2 == WhereFromConditions(q1, d1.whereStatement, 1)
    IN  IF ~HasCondition(q2) THEN {Upd(d1, "missing WHERE condition", q2, <<>>)}
        ELSE LET q3 == [q2 EXCEPT !.set = SetFromColumns(table, 1)]
             IN  {Upd(d1, e, q3, <<"Update">>) : e \in DriverErrs}

\* isSet: the map value is valid and not the zero value
IsSet(val) == val # 0

\* the bound model after the set entries of the map are assigned to it
RECURSIVE SetValues(_, _)
SetValues(m, ents) ==
    IF ents = {} THEN m
    ELSE LET e == CHOOSE x \in ents : TRUE
         IN  SetValues(IF IsSet(e.val) THEN SetValue(m, e.key, e.val) ELSE m, ents \ {e})

UpdateByMap(d, value) ==
    IF d.model = NilArg THEN {Upd(d, "missing model", NoQuery, <<>>)}
    ELSE LET d1 == [d EXCEPT !.model = SetValues(d.model, value.ents)]
         IN  UpdateByStruct(d1, d1.model)

UpdateDispatch(d, model) ==
    IF d.raw # "" THEN {Upd(d, e, RawQuery(d.raw), <<"Exec">>) : e \in DriverErrs}
    ELSE IF model.kind = "nil" THEN {Upd(d, "nil pointer dereference", NoQuery, <<>>)}
    ELSE IF model.kind = "map" THEN UpdateByMap(d, model)
    ELSE IF IsStruct(model) THEN UpdateByStruct(d, model)
    ELSE {Upd(d, "nil", NoQuery, <<>>)}

\* variant: the success path returns without resetting the builder
UpdateExitNoReset(u) ==
    IF u.err = "nil pointer dereference" THEN Out(u.db, u.err, "panic", u.q, u.io)
    ELSE IF u.err # "nil" THEN Out(u.db, u.err, "fatal", u.q, u.io)
    ELSE Out(u.db, "nil", "return", u.q, u.io)

\* log.Fatal ends the process when err is set; otherwise reset and return
UpdateExit(u) ==
    IF u.err = "nil pointer dereference" THEN Out(u.db, u.err, "panic", u.q, u.io)
    ELSE IF u.err # "nil" THEN Out(u.db, u.err, "fatal", u.q, u.io)
    ELSE Out(Reset(u.db), "nil", "return", u.q, u.io)

UpdateOutcomes(d, model) == {UpdateExit(u) : u \in UpdateDispatch(d, model)}

MapArgs ==
    {MapArg({[key |-> "name", val |-> 2], [key |-> "age", val |-> 0]}),
     MapArg({[key |-> "age", val |-> 2]})}

Update ==
    /\ Ready
    /\ \E model \in Records \cup NonRecords \cup MapArgs :
        \E o \in UpdateOutcomes(db, model) : Terminal("Update", model, <<>>, o)

\* The caller takes the returned error and carries on with the same owner.
Continue ==
    /\ alive
    /\ result # NoResult
    /\ call' = NoCall
    /\ result' = NoResult
    /\ UNCHANGED <<db, alive>>

Next ==
    \/ Select \/ Where \/ WhereOr \/ WhereGroup \/ Join \/ GroupBy \/ Having
    \/ Limit \/ Fetch \/ OrderBy \/ Raw \/ Model \/ Omit
    \/ First \/ Last \/ Take \/ Find \/ Update
    \/ Continue

Spec == Init /\ [][Next]_vars

(***************************************************************************)
(* Properties.  call is the terminal operation that has just ended, with   *)
(* call.pre the builder it was invoked on; result is what it did.          *)
(***************************************************************************)
Returned == result.exit = "return"

Executed(stmt) == \E i \in 1..Len(result.io) : result.io[i] = stmt

DeclaredColumns(m) == ModelTypes[m.typ]

HasPrimary(m) == \E i \in 1..Len(DeclaredColumns(m)) : DeclaredColumns(m)[i].primary

\* the first declared primary-key column, read off the declaration
DeclaredPrimary(m) ==
    LET decl == DeclaredColumns(m)
        i == CHOOSE j \in 1..Len(decl) :
                 decl[j].primary /\ \A k \in 1..(j - 1) : ~decl[k].primary
    IN  decl[i].Name

\* one equality per populated field of the record, in declaration order
RECURSIVE FieldFilters(_, _)
FieldFilters(m, i) ==
    IF i > Len(m.vals) THEN <<>>
    ELSE (IF m.vals[i] # 0
          THEN <<Cond(DeclaredColumns(m)[i].Name, "Eq", IntVal(m.vals[i]), "And")>>
          ELSE <<>>) \o FieldFilters(m, i + 1)

CleanSlot == call.pre.wherePrimaryCondition = ZeroCondition

\* C1: after a terminal operation returns, on any exit path, every field
\* of the builder state is empty.
C1_ResetOnEveryExit ==
    (call.op # "none" /\ Returned) => db = EmptyDB

\* C2: Update on a record whose primary-key field holds the zero value,
\* with no where-conditions and no raw override, fails with "missing WHERE
\* condition" and issues no write.
C2_ZeroKeyUpdateRefused ==
    ( /\ call.op = "Update"
      /\ IsStruct(call.model)
      /\ HasPrimary(call.model)
      /\ ModelData(call.model).Values[DeclaredPrimary(call.model)] = IntVal(0)
      /\ call.pre.whereStatement = <<>>
      /\ call.pre.raw = ""
      /\ CleanSlot )
    => (result.err = "missing WHERE condition" /\ result.io = <<>>)

\* C3: the SET clause of an executed update holds only columns that are
\* not in the omit list: an omitted column is never set, even when its
\* field is populated.
C3_SetSkipsOmitted ==
    (call.op = "Update" /\ call.pre.raw = "" /\ Executed("Update"))
    => \A i \in 1..Len(result.q.set) :
          \A k \in 1..Len(call.pre.omitsSelectStatement) :
              call.pre.omitsSelectStatement[k] # result.q.set[i].Column

\* C4: a safety error of Update ("missing model", "missing WHERE
\* condition") is returned to the caller, who can go on using the owner, and
\* no write is issued.
C4_SafetyErrorReturned ==
    (call.op = "Update" /\ result.err \in {"missing model", "missing WHERE condition"})
    => (Returned /\ result.io = <<>>)

\* C5: First and Last without raw override on a record assemble limit 1,
\* offset 0 and exactly one ORDER BY item, on the first declared primary
\* key if there is one and else on the first declared column, ascending for
\* First and descending for Last, whatever order-by, limit or fetch the
\* builder holds.
C5_FirstLastOrder ==
    (call.op \in {"First", "Last"} /\ IsStruct(call.model) /\ call.pre.raw = "")
    => /\ Returned
       /\ result.io = <<"Get">>
       /\ result.q.limit = [Limit |-> 1, Offset |-> 0]
       /\ result.q.fetch = NoFetch
       /\ result.q.orderBy =
            <<[Field |-> IF HasPrimary(call.model) THEN DeclaredPrimary(call.model)
                         ELSE DeclaredColumns(call.model)[1].Name,
               Direction |-> IF call.op = "First" THEN "Asc" ELSE "Desc"]>>

C5_Witness ==
    /\ call.op = "Last"
    /\ call.model.typ = "Note"
    /\ call.pre.orderByStatement # <<>>
    /\ call.pre.limitStatement # NoLimit
    /\ Returned
    /\ result.q.orderBy = <<[Field |-> "key", Direction |-> "Desc"]>>

\* C6: Take on a record with at least one column always completes the
\* assembly of a limit-1 query ordered by one of its columns.
C6_TakeCompletes ==
    (call.op = "Take" /\ IsStruct(call.model) /\ call.pre.raw = "")
    => /\ Returned
       /\ result.q.limit = [Limit |-> 1, Offset |-> 0]
       /\ Len(result.q.orderBy) = 1

\* C7: Find with an id-list argument that is not a sequence fails with
\* "invalid params" before any query is executed, whether or not the type
\* declares a primary key.
C7_BadParamsRefused ==
    ( /\ call.op = "Find"
      /\ call.model.kind = "ptr_slice"
      /\ call.pre.raw = ""
      /\ Len(call.args) > 0
      /\ call.args[1].k = "int" )
    => (result.err = "invalid params" /\ result.io = <<>>)

\* C8: Find with a sequence of ids on a type with primary key P assembles
\* exactly one primary-key condition P IN (ids), replacing whatever the
\* primary-key slot held, ahead of the explicit where-conditions, which
\* follow in configuration order; the joins are the configured ones.
C8_FindIdList ==
    ( /\ call.op = "Find"
      /\ call.model.kind = "ptr_slice"
      /\ HasPrimary(call.model)
      /\ call.pre.raw = ""
      /\ Len(call.args) > 0
      /\ call.args[1].k = "slice" )
    => /\ Returned
       /\ result.q.where =
            <<Cond(DeclaredPrimary(call.model), "In", call.args[1], "And")>>
            \o call.pre.whereStatement
       /\ result.q.joins = call.pre.joinStatement

C8_Witness ==
    /\ call.op = "Find"
    /\ call.model.typ = "Note"
    /\ call.args = <<SliceVal(7)>>
    /\ call.pre.wherePrimaryCondition.Value = IntVal(2)
    /\ Len(call.pre.whereStatement) = 2
    /\ call.pre.whereStatement[1] # call.pre.whereStatement[2]
    /\ Len(result.q.where) = 3
    /\ Executed("Select")

C10_OtherKindsIgnored ==
    ( /\ call.op = "Update"
      /\ call.pre.raw = ""
      /\ call.model.kind # "map"
      /\ ~IsStruct(call.model) )
    => (Returned /\ result.err = "nil" /\ result.io = <<>> /\ db = EmptyDB)

\* C10 amended: the same for every argument other than the nil interface
\* (for which reflect.TypeOf gives no type and the call panics).
C10_OtherKindsIgnoredNonNil ==
    ( /\ call.op = "Update"
      /\ call.pre.raw = ""
      /\ call.model.kind \notin {"map", "nil"}
      /\ ~IsStruct(call.model) )
    => (Returned /\ result.err = "nil" /\ result.io = <<>> /\ result.q = NoQuery
        /\ db = EmptyDB)

C10_Witness ==
    /\ call.op = "Update"
    /\ call.model.kind = "slice"
    /\ Len(call.pre.whereStatement) > 0
    /\ call.pre.raw = ""
    /\ Returned
    /\ result.err = "nil"
    /\ db = EmptyDB

====
